---- MODULE Spec2Model ----
(***************************************************************************)
(* Cortal course portal (server/index.js): the assignment submission and   *)
(* grading workflow with the student directory that gates it, the blob     *)
(* store (upload directories) and the notification store.                  *)
(*                                                                         *)
(* The server is one Node.js process.  A route handler runs to completion  *)
(* unless it awaits; requests interleave only                              *)
(*   - between multer storing an uploaded file and the handler running,    *)
(*   - at the awaits of the grade handler (pdf-lib load / embed / save),   *)
(*   - at the await of bcrypt.hash in /api/auth/register,                  *)
(*   - at the await of transporter.sendMail in sendEmail.                  *)
(* Each such continuation is a separate action below.                      *)
(***************************************************************************)
EXTENDS Integers, Sequences, FiniteSets, Bags, TLC

\* ------------------------------------------------------------------ bounds
\* Date.now() takes the values 0..MaxClock.
MaxClock == 1
\* Number of state-changing requests the environment sends in one behaviour
\* of Spec, SpecDeep, SpecMerge, SpecPeers, SpecNotify and SpecDirectory.
MaxReq == 2
MaxDeepReq == 4
MaxMergeReq == 3
MaxPeerReq == 3
MaxNotifyReq == 3
MaxFeedbackReq == 4
MaxForumReq == 5
MaxEventReq == 3
MaxAssignReq == 3
MaxOpenReq == 3
MaxResetReq == 4
\* SpecListing: the number of stored submissions and their upload times.
MaxListed == 3
MaxUploadedAt == 2
MaxDirReq == 6
\* Continuations pending at the arrival of a request: stored uploads,
\* suspended handlers and unsent emails.
MaxInflight == 2

\* ------------------------------------------------------------------ inputs
Emails == {"s@x.edu", "t@x.edu"}
StudentIds == {"S1", "S2"}
AssignmentIds == {"A1", "A2"}
\* Math.round(Math.random() * 1e6) of multer's filename: two of its values.
Rands == {"r1", "r2"}
\* req.body.grade / req.body.comments of a grade request.
GradeInputs == {[grade |-> "88", comments |-> "Good"], [grade |-> "92", comments |-> "Better"]}

\* JavaScript null, '' and the absent path.
NULL == "<null>"
EMPTY == ""
NoPath == <<>>

\* Document bytes.  valid: pdf-lib can load them; pages: one entry per page,
\* the number of images drawn on it; from: the stored document a merged
\* document was produced from (NoPath for an upload).
BadBytes == [valid |-> FALSE, pages |-> <<>>, from |-> NoPath]
PdfBytes(n) == [valid |-> TRUE, pages |-> [i \in 1..n |-> 0], from |-> NoPath]
\* What a student may upload: garbage, a PDF without pages, a PDF of 2 pages.
Uploads == {BadBytes, PdfBytes(0), PdfBytes(2)}
\* The annotation part of a grade request: none, a PNG, or undecodable bytes.
Annotations == {"none", "png", "bad"}
\* The Authorization header of a request: the payload {email, role} of a
\* token signed by generateToken, or NoToken when there is no valid token.
NoToken == [email |-> NULL, role |-> NULL]
Tokens == {NoToken, [email |-> "s@x.edu", role |-> "student"],
           [email |-> "a@x.edu", role |-> "admin"]}

VARIABLES
  clock,            \* Date.now()
  pendingStudents,  \* const pendingStudents = []
  students,         \* const students = []
  users,            \* const users = []
  submissions,      \* const submissions = []
  notifications,    \* const notifications = []
  files,            \* server/uploads: path -> bytes
  uploads,          \* submit requests whose file multer has stored, handler not yet run
  grading,          \* grade handlers suspended at an await of the merge
  registering,      \* /api/auth/register handlers suspended at await bcrypt.hash
  mailq,            \* sendEmail calls suspended at await transporter.sendMail
  assignments,      \* const assignments = []
  forumThreads,     \* const forumThreads = []
  messages,         \* const messages = []
  resetRequests,    \* const resetRequests = []
  resetting,        \* /api/auth/resetPassword handlers suspended at await bcrypt.hash
  disk,             \* data.json as saveData wrote it last
  last,             \* the request handled last: inputs, response, and what it found
  budget            \* state-changing requests the environment may still send

vars == <<clock, pendingStudents, students, users, submissions, notifications,
          files, uploads, grading, registering, mailq, assignments, forumThreads,
          messages, resetRequests, resetting, disk, last, budget>>

\* The assignments, the forum, the private messages and the password resets,
\* which the registration, submission, grading and notification routes leave
\* alone.
community == <<assignments, forumThreads, messages, resetRequests, resetting>>

\* ------------------------------------------------------------------ helpers
\* Array.prototype.find / findIndex, 1-based: the first of the matching
\* indices; 0 when nothing matches.
FindIndex(matching) ==
  IF matching = {} THEN 0 ELSE CHOOSE i \in matching : \A j \in matching : i <= j

\* Array.prototype.splice(idx, 1)
RemoveAt(arr, idx) == [i \in 1..(Len(arr) - 1) |-> IF i < idx THEN arr[i] ELSE arr[i + 1]]

\* fs.writeFileSync(path, bytes) / multer storing an upload
WriteFile(fs, path, bytes) == [p \in (DOMAIN fs) \cup {path} |-> IF p = path THEN bytes ELSE fs[p]]
\* An unlink that leaves the file in place.
UnlinkKeeps(fs, path) == fs
\* fs.unlinkSync(path); a missing file throws, which every caller catches
Unlink(fs, path) == [p \in (DOMAIN fs) \ {path} |-> fs[p]]

\* multer diskStorage: destination by route, filename Date.now() + '-' + random
SubmissionPath(t, r) == <<"submissions", t, r>>
\* `${Date.now()}-feedback.pdf` in uploads/feedback
FeedbackPath(t) == <<"feedback", t, 0>>

Inflight ==
  BagCardinality(uploads) + BagCardinality(grading) + BagCardinality(registering)
    + BagCardinality(mailq) + BagCardinality(resetting)

\* function findStudentByEmail / students.find((s) => s.email === email)
FindStudentByEmail(studs, email) == FindIndex({i \in 1..Len(studs) : studs[i].email = email})
\* students.find((s) => s.studentId === studentId)
FindStudentById(studs, studentId) == FindIndex({i \in 1..Len(studs) : studs[i].studentId = studentId})
\* pendingStudents.findIndex((s) => s.id === id)
FindPendingById(pend, id) == FindIndex({i \in 1..Len(pend) : pend[i].id = id})
\* users.find((u) => u.email === email)
FindUser(us, email) == FindIndex({i \in 1..Len(us) : us[i].email = email})

\* function authRequired: 401 unless the request carries a valid token
authRequired(token) == token # NoToken
\* function adminRequired: 403 unless req.user.role === 'admin'
adminRequired(token) == authRequired(token) /\ token.role = "admin"

\* function createNotification(email, message): id = Date.now().toString()
createNotification(notes, now, email, message) ==
  Append(notes, [id |-> now, email |-> email, message |-> message, read |-> FALSE,
                 date |-> now])

\* A send that is over when the caller goes on: nothing is left suspended.
sendEmailInline(q, to, subject) == q
\* async function sendEmail(to, subject, text): suspends at await sendMail
sendEmail(q, to, subject) == q (+) SetToBag({[to |-> to, subject |-> subject]})

\* A lookup that never finds the pair's record.
FindSubmissionNone(subs, assignmentId, studentEmail) == 0
\* submissions.find(s => s.assignmentId === assignmentId && s.studentEmail === studentEmail)
FindSubmission(subs, assignmentId, studentEmail) ==
  FindIndex({i \in 1..Len(subs) : subs[i].assignmentId = assignmentId /\ subs[i].studentEmail = studentEmail})
\* A lookup by submission id alone.
FindSubmissionByIdOnly(subs, submissionId, assignmentId) ==
  FindIndex({i \in 1..Len(subs) : subs[i].id = submissionId})
\* submissions.find(s => s.id === submissionId && s.assignmentId === assignmentId)
FindSubmissionById(subs, submissionId, assignmentId) ==
  FindIndex({i \in 1..Len(subs) : subs[i].id = submissionId /\ subs[i].assignmentId = assignmentId})

\* loadData(): the stores are read from data.json.  FreshData is the file
\* written by the first start.  ApprovedData is the file saved by an earlier
\* run in which s@x.edu and t@x.edu registered through /api/registerStudent
\* at time -1 and were approved (the approval emails' notifications were created
\* after that run's last save, so the file does not hold them).
FreshData ==
  [pendingStudents |-> <<>>, students |-> <<>>, users |-> <<>>, submissions |-> <<>>,
   notifications |-> <<>>, assignments |-> <<>>, forumThreads |-> <<>>, messages |-> <<>>,
   resetRequests |-> <<>>]
ApprovedData ==
  [pendingStudents |-> <<>>,
   submissions |-> <<>>,
   assignments |-> <<[id |-> "A1"], [id |-> "A2"]>>,
   forumThreads |-> <<>>, messages |-> <<>>, resetRequests |-> <<>>,
   students |-> <<[id |-> -1, email |-> "s@x.edu", studentId |-> "S1", muted |-> FALSE],
                  [id |-> -1, email |-> "t@x.edu", studentId |-> "S2", muted |-> FALSE]>>,
   users |-> <<>>,
   notifications |-> createNotification(
                       createNotification(<<>>, -1, "s@x.edu", <<"Registration pending", NULL>>),
                       -1, "t@x.edu", <<"Registration pending", NULL>>)]

\* JSON.stringify(data) of saveData, JSON.parse(raw) of loadData: the stores
\* hold strings, booleans and null only, which the text keeps as they are,
\* field for field; the file is a copy that later mutations do not reach.
DataFile(pend, studs, us, subs, notes, asns, threads, msgs, resets) ==
  [pendingStudents |-> pend, students |-> studs, users |-> us,
   submissions |-> subs, notifications |-> notes, assignments |-> asns,
   forumThreads |-> threads, messages |-> msgs, resetRequests |-> resets]

\* A save of the stores as the handler found them.
saveDataStale ==
  disk' = DataFile(pendingStudents, students, users, submissions, notifications,
                   assignments, forumThreads, messages, resetRequests)
\* function saveData(): writes the stores as the handler leaves them.
saveData ==
  disk' = DataFile(pendingStudents', students', users', submissions', notifications',
                   assignments', forumThreads', messages', resetRequests')

\* The state after startup from the data file `data`, with n requests to come.
Start(data, n) ==
  /\ clock = 0
  /\ pendingStudents = data.pendingStudents
  /\ students = data.students
  /\ users = data.users
  /\ notifications = data.notifications
  /\ submissions = data.submissions
  /\ files = IF data.submissions = <<>> THEN <<>>
             ELSE [p \in {data.submissions[i].filePath : i \in 1..Len(data.submissions)}
                     |-> PdfBytes(2)]
  /\ uploads = EmptyBag
  /\ grading = EmptyBag
  /\ registering = EmptyBag
  /\ mailq = EmptyBag
  /\ assignments = data.assignments
  /\ forumThreads = data.forumThreads
  /\ messages = data.messages
  /\ resetRequests = data.resetRequests
  /\ resetting = EmptyBag
  /\ disk = DataFile(data.pendingStudents, data.students, data.users, data.submissions,
                     data.notifications, data.assignments, data.forumThreads,
                     data.messages, data.resetRequests)
  /\ last = [op |-> "init"]
  /\ budget = n

\* Time passes between two events.
Tick ==
  /\ UNCHANGED community
  /\ clock < MaxClock
  /\ clock' = clock + 1
  /\ UNCHANGED <<pendingStudents, students, users, submissions, notifications,
                 files, uploads, grading, registering, mailq, disk, last, budget>>

\* ------------------------------------------------------------------ directory
\* POST /api/registerStudent (no authentication)
RegisterStudent(email, studentId) ==
  /\ UNCHANGED community
  /\ budget > 0 /\ Inflight < MaxInflight
  /\ UNCHANGED <<clock, students, users, submissions, files, uploads, grading, registering,
                 mailq, last>>
  /\ LET dup(arr) == {i \in 1..Len(arr) : arr[i].email = email \/ arr[i].studentId = studentId} IN
     IF FindIndex(dup(pendingStudents)) # 0 \/ FindIndex(dup(students)) # 0
     THEN UNCHANGED <<pendingStudents, notifications, disk, budget>>      \* 400
     ELSE /\ pendingStudents' = Append(pendingStudents,
                                   [id |-> clock, email |-> email, studentId |-> studentId])
          /\ notifications' = createNotification(notifications, clock, email,
                                                 <<"Registration pending", NULL>>)
          /\ budget' = budget - 1
          /\ saveData

\* POST /api/auth/register, up to await bcrypt.hash(password, 10)
AuthRegisterBegin(email, role, studentId, inviteOk) ==
  /\ UNCHANGED community
  /\ budget > 0 /\ Inflight < MaxInflight
  /\ IF FindUser(users, email) # 0
     THEN UNCHANGED <<registering, budget>>                         \* 409
     ELSE /\ registering' = registering (+) SetToBag({[email |-> email, role |-> role,
                               studentId |-> studentId, inviteOk |-> inviteOk]})
          /\ budget' = budget - 1
  /\ UNCHANGED <<clock, pendingStudents, students, users, submissions, notifications,
                 files, uploads, grading, mailq, disk, last>>

\* POST /api/auth/register, after the await
AuthRegisterEnd(r) ==
  /\ UNCHANGED community
  /\ BagIn(r, registering)
  /\ registering' = registering (-) SetToBag({r})
  /\ IF r.role = "admin"
     THEN IF ~r.inviteOk
          THEN UNCHANGED <<users, pendingStudents, notifications>>      \* 403
          ELSE /\ users' = Append(users, [email |-> r.email, role |-> "admin",
                                          approved |-> TRUE, muted |-> FALSE,
                                          passwordHash |-> <<"bcrypt", "pw0">>])
               /\ UNCHANGED <<pendingStudents, notifications>>
     ELSE /\ pendingStudents' = Append(pendingStudents,
                                   [id |-> clock, email |-> r.email, studentId |-> r.studentId])
          /\ users' = Append(users, [email |-> r.email, role |-> "student",
                                     approved |-> FALSE, muted |-> FALSE,
                                     passwordHash |-> <<"bcrypt", "pw0">>])
          /\ notifications' = createNotification(notifications, clock, r.email,
                                                 <<"Registration submitted", NULL>>)
  /\ UNCHANGED <<clock, students, submissions, files, uploads, grading, mailq, disk, last,
                 budget>>

\* POST /api/students/:id/approve (admin)
Approve(id) ==
  /\ UNCHANGED community
  /\ budget > 0 /\ Inflight < MaxInflight
  /\ UNCHANGED <<clock, submissions, notifications, files, uploads, grading, registering, last>>
  /\ LET idx == FindPendingById(pendingStudents, id) IN
     IF idx = 0
     THEN UNCHANGED <<pendingStudents, students, users, mailq, disk, budget>>      \* 404
     ELSE LET stu == pendingStudents[idx]
              u == FindUser(users, stu.email) IN
          /\ pendingStudents' = RemoveAt(pendingStudents, idx)
          /\ students' = Append(students, [id |-> stu.id, email |-> stu.email,
                                           studentId |-> stu.studentId, muted |-> FALSE])
          /\ users' = IF u = 0 THEN users ELSE [users EXCEPT ![u].approved = TRUE]
          /\ mailq' = sendEmail(mailq, stu.email, <<"Registration approved", NULL>>)
          /\ budget' = budget - 1
          /\ saveData

\* POST /api/students/:id/reject (admin)
Reject(id) ==
  /\ UNCHANGED community
  /\ budget > 0 /\ Inflight < MaxInflight
  /\ UNCHANGED <<clock, students, submissions, notifications, files, uploads, grading,
                 registering, last>>
  /\ LET idx == FindPendingById(pendingStudents, id) IN
     IF idx = 0
     THEN UNCHANGED <<pendingStudents, users, mailq, disk, budget>>      \* 404
     ELSE LET stu == pendingStudents[idx]
              u == FindUser(users, stu.email) IN
          /\ pendingStudents' = RemoveAt(pendingStudents, idx)
          /\ users' = IF u = 0 THEN users ELSE RemoveAt(users, u)
          /\ mailq' = sendEmail(mailq, stu.email, <<"Registration rejected", NULL>>)
          /\ budget' = budget - 1
          /\ saveData

\* POST /api/students/:studentId/mute and /unmute (admin): muted = TRUE / FALSE
SetMuted(studentId, muted) ==
  /\ UNCHANGED community
  /\ budget > 0 /\ Inflight < MaxInflight
  /\ UNCHANGED <<clock, pendingStudents, submissions, files, uploads, grading, registering, last>>
  /\ LET idx == FindStudentById(students, studentId) IN
     IF idx = 0
     THEN UNCHANGED <<students, users, mailq, notifications, disk, budget>>      \* 404
     ELSE LET stu == students[idx]
              u == FindUser(users, stu.email) IN
          /\ students' = [students EXCEPT ![idx].muted = muted]
          /\ users' = IF u = 0 THEN users ELSE [users EXCEPT ![u].muted = muted]
          /\ mailq' = sendEmail(mailq, stu.email,
                                IF muted THEN <<"Account muted", NULL>>
                                         ELSE <<"Account unmuted", NULL>>)
          /\ notifications' = createNotification(notifications, clock, stu.email,
                                IF muted THEN <<"Your account has been muted", NULL>>
                                         ELSE <<"Your account has been unmuted", NULL>>)
          /\ budget' = budget - 1
          /\ saveData

Mute(studentId) == SetMuted(studentId, TRUE)
Unmute(studentId) == SetMuted(studentId, FALSE)

\* sendEmail after await transporter.sendMail: the notification is created
\* when the send resolved; a rejected send leaves sendEmail's promise rejected
\* and creates nothing.
EmailSent(m) ==
  /\ UNCHANGED community
  /\ BagIn(m, mailq)
  /\ mailq' = mailq (-) SetToBag({m})
  /\ notifications' = createNotification(notifications, clock, m.to, m.subject)
  /\ UNCHANGED <<clock, pendingStudents, students, users, submissions, files,
                 uploads, grading, registering, disk, last, budget>>

EmailFailed(m) ==
  /\ UNCHANGED community
  /\ BagIn(m, mailq)
  /\ mailq' = mailq (-) SetToBag({m})
  /\ UNCHANGED <<clock, pendingStudents, students, users, submissions, notifications, files,
                 uploads, grading, registering, disk, last, budget>>

\* ------------------------------------------------------------------ submit
\* What a handler's run is judged by: the stores as it found and as it left them.
Stores == [clock |-> clock, pendingStudents |-> pendingStudents, students |-> students,
           submissions |-> submissions, notifications |-> notifications, files |-> files,
           mailq |-> mailq]

\* POST /api/assignments/:id/submit, upload.single('file'): multer stores the
\* file part before the handler runs.  No middleware reads the request's token.
SubmitUpload(token, assignmentId, studentEmail, bytes, r) ==
  /\ UNCHANGED community
  /\ budget > 0 /\ Inflight < MaxInflight
  /\ budget' = budget - 1
  /\ LET path == SubmissionPath(clock, r) IN
     /\ files' = WriteFile(files, path, bytes)
     /\ uploads' = uploads (+) SetToBag({[token |-> token, assignmentId |-> assignmentId,
                                          studentEmail |-> studentEmail, path |-> path]})
  /\ UNCHANGED <<clock, pendingStudents, students, users, submissions, notifications,
                 grading, registering, mailq, disk, last>>

\* The same request without a file part: 400 'No file uploaded'.
SubmitNoFile(assignmentId, studentEmail) ==
  /\ UNCHANGED vars

\* A gate that looks at approval only.
GateIgnoresMute(studs, studentEmail) ==
  IF FindStudentByEmail(studs, studentEmail) = 0 THEN "NOT_APPROVED" ELSE "OK"

\* Lines 473-479: the check of the student directory.
Gate(studs, studentEmail) ==
  LET studentRec == FindStudentByEmail(studs, studentEmail) IN
  IF studentRec = 0 THEN "NOT_APPROVED"
  ELSE IF studs[studentRec].muted THEN "MUTED"
  ELSE "OK"

\* A handler without the check of line 482.
AlreadyGradedNever(subs, sub) == FALSE
\* Line 482: sub && sub.graded
AlreadyGraded(subs, sub) == sub # 0 /\ subs[sub].graded

\* A replacement that keeps the old timestamp.
ReplaceKeepsTimestamp(subs, sub, path, now) == [subs EXCEPT ![sub].filePath = path]
\* Lines 492-493: the replacement of the stored document of subs[sub].
Replace(subs, sub, path, now) ==
  [subs EXCEPT ![sub].filePath = path, ![sub].uploadedAt = now]

\* A first submission that starts with a grade of zero.
CreateScoredZero(subs, assignmentId, studentEmail, path, now) ==
  Append(subs, [id |-> now, assignmentId |-> assignmentId, studentEmail |-> studentEmail,
                filePath |-> path, uploadedAt |-> now, graded |-> FALSE, grade |-> "0",
                comments |-> EMPTY, feedbackPath |-> NoPath])
\* Lines 497-512: a first submission.
Create(subs, assignmentId, studentEmail, path, now) ==
  Append(subs, [id |-> now, assignmentId |-> assignmentId, studentEmail |-> studentEmail,
                filePath |-> path, uploadedAt |-> now, graded |-> FALSE, grade |-> NULL,
                comments |-> EMPTY, feedbackPath |-> NoPath])

\* res.status(status).json(...) of the submit handler, with the stores before and after.
SubmitResponse(u, status, error, submissionId) ==
  [op |-> "submit", req |-> u, status |-> status, error |-> error,
   submissionId |-> submissionId, pre |-> Stores, post |-> Stores']

\* The handler of POST /api/assignments/:id/submit for the stored upload u.
SubmitHandler(u) ==
  /\ UNCHANGED community
  /\ BagIn(u, uploads)
  /\ uploads' = uploads (-) SetToBag({u})
  /\ UNCHANGED <<clock, pendingStudents, students, users, notifications, grading,
                 registering, budget>>
  /\ LET gate == Gate(students, u.studentEmail)
         sub == FindSubmission(submissions, u.assignmentId, u.studentEmail) IN
     IF gate # "OK"
     THEN /\ UNCHANGED <<submissions, files, mailq, disk>>
          /\ last' = SubmitResponse(u, 403, gate, -1)
     ELSE IF AlreadyGraded(submissions, sub)
     THEN /\ UNCHANGED <<submissions, files, mailq, disk>>
          /\ last' = SubmitResponse(u, 400, "ALREADY_GRADED", -1)
     ELSE /\ IF sub # 0
             THEN /\ files' = Unlink(files, submissions[sub].filePath)
                  /\ submissions' = Replace(submissions, sub, u.path, clock)
             ELSE /\ submissions' = Create(submissions, u.assignmentId, u.studentEmail,
                                           u.path, clock)
                  /\ UNCHANGED files
          /\ mailq' = sendEmail(mailq, u.studentEmail,
                                <<"Assignment submission received", NULL>>)
          /\ saveData
          /\ last' = SubmitResponse(u, 200, NULL,
                                    IF sub # 0 THEN submissions[sub].id ELSE clock)

\* The submit requests of an environment that holds the tokens T, names the
\* assignments A and the emails E, uploads the documents U and draws the
\* random suffixes R.
SubmitBy(T, A, E, U, R) ==
  \/ \E token \in T, a \in A, e \in E, bytes \in U, r \in R :
       SubmitUpload(token, a, e, bytes, r)
  \/ \E a \in A, e \in E : SubmitNoFile(a, e)
  \/ \E u \in BagToSet(uploads) : SubmitHandler(u)
\* The same requests sent without a token.
Submit(A, E, U, R) == SubmitBy({NoToken}, A, E, U, R)

\* ------------------------------------------------------------------ grade
\* pdf-lib: PDFDocument.load(pdfBytes), embedPng(annotationBytes), getPages()[0],
\* drawImage over the whole first page, save().  Any throw lands in the catch.
MergeSucceeds(pdfBytes, annotation) ==
  pdfBytes.valid /\ annotation = "png" /\ Len(pdfBytes.pages) >= 1
\* A merge that draws the annotation on every page.
MergeAllPages(pdfBytes, from) ==
  [valid |-> TRUE, pages |-> [i \in DOMAIN pdfBytes.pages |-> pdfBytes.pages[i] + 1], from |-> from]
Merge(pdfBytes, from) ==
  [valid |-> TRUE, pages |-> [pdfBytes.pages EXCEPT ![1] = @ + 1], from |-> from]

\* res.json / res.status(404).json of the grade handler.  req: the request;
\* read: the document the merge was given, and where it was read from
\* (NoPath when nothing was read); merged: the feedback document written by
\* this run (NoPath when none was).
GradeResponse(req, status, error, feedbackPath, from, pdfBytes, merged) ==
  [op |-> "grade", req |-> req, status |-> status, error |-> error,
   feedbackPath |-> feedbackPath, from |-> from, pdfBytes |-> pdfBytes, merged |-> merged,
   pre |-> Stores, post |-> Stores']

\* A grading transition that refuses to regrade.
GradedOnce(submission, grade, comments, feedbackPath) ==
  IF submission.graded THEN submission
  ELSE [submission EXCEPT !.graded = TRUE, !.grade = grade, !.comments = comments,
                          !.feedbackPath = IF feedbackPath # NoPath THEN feedbackPath ELSE @]
\* A grading transition that reopens a graded record.
GradedToggles(submission, grade, comments, feedbackPath) ==
  [submission EXCEPT !.graded = ~@, !.grade = grade, !.comments = comments,
                     !.feedbackPath = IF feedbackPath # NoPath THEN feedbackPath ELSE @]
\* A grading transition that assigns feedbackPath unconditionally.
GradedClearsFeedback(submission, grade, comments, feedbackPath) ==
  [submission EXCEPT !.graded = TRUE, !.grade = grade, !.comments = comments,
                     !.feedbackPath = feedbackPath]

\* A grading transition that forgets the feedback of an earlier grading.
GradedFreshFeedback(submission, grade, comments, feedbackPath) ==
  [submission EXCEPT !.graded = TRUE, !.grade = grade, !.comments = comments,
                     !.feedbackPath = IF feedbackPath # NoPath THEN feedbackPath
                                      ELSE IF submission.graded THEN NoPath ELSE @]
\* A grading transition that keeps comments once given.
GradedKeepsComments(submission, grade, comments, feedbackPath) ==
  [submission EXCEPT !.graded = TRUE, !.grade = grade,
                     !.comments = IF @ = EMPTY THEN comments ELSE @,
                     !.feedbackPath = IF feedbackPath # NoPath THEN feedbackPath ELSE @]

\* Lines 568-573: the grading transition of one record.
Graded(submission, grade, comments, feedbackPath) ==
  [submission EXCEPT !.graded = TRUE, !.grade = grade, !.comments = comments,
                     !.feedbackPath = IF feedbackPath # NoPath THEN feedbackPath ELSE @]

\* Lines 568-584: the grading transition on submissions[idx], the email, the response.
GradeCommit(idx, req, from, pdfBytes, merged) ==
  /\ submissions' = [submissions EXCEPT
                       ![idx] = Graded(@, req.grade, req.comments, merged)]
  /\ mailq' = sendEmail(mailq, submissions[idx].studentEmail,
                        <<"Assignment graded", req.assignmentId>>)
  /\ saveData
  /\ last' = GradeResponse(req, 200, NULL, submissions'[idx].feedbackPath, from, pdfBytes, merged)

\* POST /api/assignments/:assignmentId/submissions/:submissionId/grade, from the
\* lookup to the first await of the merge (or to the end, when nothing is awaited).
\* The route's only middleware is upload.single('annotation'): the request's
\* token is not read.
Grade(token, assignmentId, submissionId, gi, annotation) ==
  /\ UNCHANGED community
  /\ budget > 0 /\ Inflight < MaxInflight
  /\ budget' = budget - 1
  /\ UNCHANGED <<clock, pendingStudents, students, users, notifications, files, uploads,
                 registering>>
  /\ LET req == [token |-> token, assignmentId |-> assignmentId, submissionId |-> submissionId,
                 grade |-> gi.grade, comments |-> gi.comments, annotation |-> annotation]
         idx == FindSubmissionById(submissions, submissionId, assignmentId) IN
     IF idx = 0
     THEN /\ UNCHANGED <<submissions, mailq, grading, disk>>
          /\ last' = GradeResponse(req, 404, "NOT_FOUND", NoPath, NoPath, BadBytes, NoPath)
     ELSE IF annotation = "none" \/ submissions[idx].filePath \notin DOMAIN files
     THEN \* no annotation part, or readFileSync(submission.filePath) threw
          /\ UNCHANGED grading
          /\ GradeCommit(idx, req, NoPath, BadBytes, NoPath)
     ELSE /\ grading' = grading (+) SetToBag({[req |-> req, idx |-> idx,
                           from |-> submissions[idx].filePath,
                           pdfBytes |-> files[submissions[idx].filePath]]})
          /\ UNCHANGED <<submissions, mailq, disk, last>>

\* The grade handler g after its last await: write the merged document (or
\* land in the catch), then lines 568-584.
GradeFinish(g) ==
  /\ UNCHANGED community
  /\ BagIn(g, grading)
  /\ grading' = grading (-) SetToBag({g})
  /\ UNCHANGED <<clock, pendingStudents, students, users, notifications, uploads,
                 registering, budget>>
  /\ IF MergeSucceeds(g.pdfBytes, g.req.annotation)
     THEN /\ files' = WriteFile(files, FeedbackPath(clock), Merge(g.pdfBytes, g.from))
          /\ GradeCommit(g.idx, g.req, g.from, g.pdfBytes, FeedbackPath(clock))
     ELSE /\ UNCHANGED files
          /\ GradeCommit(g.idx, g.req, g.from, g.pdfBytes, NoPath)

\* The grade requests of an environment that holds the tokens T and names
\* the assignments A and the submission ids 0..MaxClock, with the inputs G and
\* the annotation parts N.
GradingBy(T, A, G, N) ==
  \/ \E token \in T, a \in A, sid \in 0..MaxClock, gi \in G, annotation \in N :
       Grade(token, a, sid, gi, annotation)
  \/ \E g \in BagToSet(grading) : GradeFinish(g)
\* The same requests sent without a token.
Grading(A, G, N) == GradingBy({NoToken}, A, G, N)

\* ------------------------------------------------------------------ notifications
\* notifications.find(n => n.id === id)
FindNotification(notes, id) == FindIndex({i \in 1..Len(notes) : notes[i].id = id})

\* A markRead that dismisses the notification.
markReadDismisses(notes, idx) == RemoveAt(notes, idx)
\* A read flag that flips on every call.
markReadToggles(notes, idx) == [notes EXCEPT ![idx].read = ~@]
\* note.read = true
markRead(notes, idx) == [notes EXCEPT ![idx].read = TRUE]

\* PUT /api/notifications/:id/read (no authentication)
MarkRead(id) ==
  /\ UNCHANGED community
  /\ budget > 0 /\ Inflight < MaxInflight
  /\ budget' = budget - 1
  /\ UNCHANGED <<clock, pendingStudents, students, users, submissions, files, uploads,
                 grading, registering, mailq>>
  /\ LET idx == FindNotification(notifications, id) IN
     IF idx = 0
     THEN /\ UNCHANGED <<notifications, disk>>
          /\ last' = [op |-> "markRead", req |-> [id |-> id], status |-> 404,
                      pre |-> Stores, post |-> Stores']
     ELSE /\ notifications' = markRead(notifications, idx)
          /\ saveData
          /\ last' = [op |-> "markRead", req |-> [id |-> id], status |-> 200,
                      pre |-> Stores, post |-> Stores']

\* The markRead requests for the notification ids -1..MaxClock.
Reading == \E id \in -1..MaxClock : MarkRead(id)

\* client/main.js, loadNotificationDetails: a click on the notification n
\* opens the assignment n.assignmentId names, when n has that field.
NotificationTarget(n) ==
  IF "assignmentId" \in DOMAIN n THEN n.assignmentId ELSE NULL

\* ------------------------------------------------------------------ listing
\* GET /api/assignments/:id/submissions:
\* submissions.filter(s => s.assignmentId === assignmentId)
ListSubmissions(subs, assignmentId) ==
  LET T(sub) == sub.assignmentId = assignmentId IN SelectSeq(subs, T)

\* Both lists compared oldest first.
CompareAscending(a, b, dir) == a.uploadedAt - b.uploadedAt
\* client/main.js: (a, b) => new Date(a.uploadedAt) - new Date(b.uploadedAt)
\* for the ungraded list ("asc"), b before a for the graded list ("desc").
Compare(a, b, dir) ==
  IF dir = "asc" THEN a.uploadedAt - b.uploadedAt ELSE b.uploadedAt - a.uploadedAt

\* Array.prototype.sort with that comparator: a stable sort.
RECURSIVE Sort(_, _)
Sort(arr, dir) ==
  IF arr = <<>> THEN <<>>
  ELSE LET x == arr[Len(arr)]
           sorted == Sort(SubSeq(arr, 1, Len(arr) - 1), dir)
           k == Cardinality({i \in 1..Len(sorted) : Compare(sorted[i], x, dir) <= 0})
       IN SubSeq(sorted, 1, k) \o <<x>> \o SubSeq(sorted, k + 1, Len(sorted))

\* client/main.js, openGradeModal and openAssignmentGradesPage: the fetched
\* list is split into ungraded and graded submissions, and each part sorted.
ClientListing(subs) ==
  LET U(sub) == ~sub.graded
      G(sub) == sub.graded
  IN [ungraded |-> Sort(SelectSeq(subs, U), "asc"),
      graded |-> Sort(SelectSeq(subs, G), "desc")]

\* The grading page of the assignment is opened.
List(assignmentId) ==
  /\ UNCHANGED community
  /\ last' = [op |-> "list", req |-> [assignmentId |-> assignmentId],
              fetched |-> ListSubmissions(submissions, assignmentId),
              shown |-> ClientListing(ListSubmissions(submissions, assignmentId)),
              pre |-> Stores, post |-> Stores]
  /\ UNCHANGED <<clock, pendingStudents, students, users, submissions, notifications,
                 files, uploads, grading, registering, mailq, disk, budget>>

\* ------------------------------------------------------------------ assignments
\* POST /api/assignments (admin): id = Date.now().toString()
CreateAssignment ==
  /\ UNCHANGED <<clock, pendingStudents, students, users, submissions, notifications,
                 files, uploads, grading, registering, mailq, forumThreads, messages,
                 resetRequests, resetting, last>>
  /\ budget > 0 /\ Inflight < MaxInflight
  /\ budget' = budget - 1
  /\ assignments' = Append(assignments, [id |-> ToString(clock)])
  /\ saveData

\* ------------------------------------------------------------------ password reset
\* The new passwords a resetPassword request may carry.
Passwords == {"pw1", "pw2"}
\* resetRequests.find / findIndex (r => r.email === email)
FindReset(resets, email) == FindIndex({i \in 1..Len(resets) : resets[i].email = email})
\* resetRequests.find(r => r.email === email && r.approved)
FindApprovedReset(resets, email) ==
  FindIndex({i \in 1..Len(resets) : resets[i].email = email /\ resets[i].approved})

\* users.forEach(u => { if (u.role === 'admin') createNotification(u.email, ...) })
RECURSIVE NotifyAdmins(_, _, _, _)
NotifyAdmins(notes, us, now, message) ==
  IF us = <<>> THEN notes
  ELSE NotifyAdmins(IF Head(us).role = "admin"
                    THEN createNotification(notes, now, Head(us).email, message)
                    ELSE notes,
                    Tail(us), now, message)

\* POST /api/auth/requestReset (no authentication)
RequestReset(email) ==
  /\ UNCHANGED assignments
  /\ UNCHANGED <<clock, pendingStudents, students, users, submissions, files, uploads,
                 grading, registering, mailq, forumThreads, messages, resetting, last>>
  /\ budget > 0 /\ Inflight < MaxInflight
  /\ IF FindReset(resetRequests, email) # 0
     THEN UNCHANGED <<resetRequests, notifications, disk, budget>>
     ELSE /\ resetRequests' = Append(resetRequests, [email |-> email, approved |-> FALSE])
          /\ notifications' = NotifyAdmins(notifications, users, clock,
                                           <<"Password reset requested", email>>)
          /\ budget' = budget - 1
          /\ saveData

\* POST /api/admin/resetRequests/:email/approve (admin)
ApproveReset(email) ==
  /\ UNCHANGED assignments
  /\ UNCHANGED <<clock, pendingStudents, students, users, submissions, files, uploads,
                 grading, registering, forumThreads, messages, resetting, last>>
  /\ budget > 0 /\ Inflight < MaxInflight
  /\ LET reqIndex == FindReset(resetRequests, email) IN
     IF reqIndex = 0
     THEN UNCHANGED <<resetRequests, notifications, mailq, disk, budget>>      \* 404
     ELSE /\ resetRequests' = [resetRequests EXCEPT ![reqIndex].approved = TRUE]
          /\ mailq' = sendEmail(mailq, email, <<"Password reset approved", NULL>>)
          /\ notifications' = createNotification(notifications, clock, email,
                                                 <<"Password reset approved", NULL>>)
          /\ budget' = budget - 1
          /\ saveData

\* res.status(...).json(...) of resetPassword, with the users and the reset
\* requests as the handler's last stretch found and left them.
ResetResponse(req, status) ==
  [op |-> "resetPassword", req |-> req, status |-> status,
   users |-> users, usersAfter |-> users',
   resetRequests |-> resetRequests, resetRequestsAfter |-> resetRequests']

\* POST /api/auth/resetPassword (no authentication), up to await bcrypt.hash
ResetPasswordBegin(email, newPassword) ==
  /\ UNCHANGED assignments
  /\ UNCHANGED <<clock, pendingStudents, students, users, submissions, notifications,
                 files, uploads, grading, registering, mailq, forumThreads, messages,
                 resetRequests, disk>>
  /\ budget > 0 /\ Inflight < MaxInflight
  /\ budget' = budget - 1
  /\ LET req == [email |-> email, newPassword |-> newPassword] IN
     IF FindApprovedReset(resetRequests, email) = 0
     THEN /\ UNCHANGED resetting
          /\ last' = ResetResponse(req, 403)
     ELSE IF FindUser(users, email) = 0
     THEN /\ UNCHANGED resetting
          /\ last' = ResetResponse(req, 404)
     ELSE /\ resetting' = resetting (+) SetToBag({[req |-> req,
                                                   user |-> FindUser(users, email)]})
          /\ UNCHANGED last

\* POST /api/auth/resetPassword, after the await: the hash is assigned to the
\* user object found before it, and the first request for the email removed.
ResetPasswordEnd(r) ==
  /\ UNCHANGED assignments
  /\ UNCHANGED <<clock, pendingStudents, students, submissions, notifications, files,
                 uploads, grading, registering, mailq, forumThreads, messages, budget>>
  /\ BagIn(r, resetting)
  /\ resetting' = resetting (-) SetToBag({r})
  /\ users' = IF r.user <= Len(users) /\ users[r.user].email = r.req.email
              THEN [users EXCEPT ![r.user].passwordHash = <<"bcrypt", r.req.newPassword>>]
              ELSE users
  /\ LET idx == FindReset(resetRequests, r.req.email) IN
     resetRequests' = IF idx # 0 THEN RemoveAt(resetRequests, idx) ELSE resetRequests
  /\ saveData
  /\ last' = ResetResponse(r.req, 200)

\* The password reset requests for the emails E, and an admin's approvals.
Resets(E) ==
  \/ \E e \in E : RequestReset(e)
  \/ \E e \in E : ApproveReset(e)
  \/ \E e \in E, pw \in Passwords : ResetPasswordBegin(e, pw)
  \/ \E r \in BagToSet(resetting) : ResetPasswordEnd(r)

\* ------------------------------------------------------------------ messages
\* POST /api/messages (no authentication), all fields present
SendMessage(fromEmail, toEmail) ==
  /\ UNCHANGED assignments
  /\ UNCHANGED <<clock, pendingStudents, students, users, submissions, files, uploads,
                 grading, registering, forumThreads, resetRequests, resetting, last>>
  /\ budget > 0 /\ Inflight < MaxInflight
  /\ LET sender == FindUser(users, fromEmail)
         receiver == FindUser(users, toEmail) IN
     IF sender # 0 /\ receiver # 0
          /\ users[sender].role # "admin" /\ users[receiver].role # "admin"
     THEN UNCHANGED <<messages, notifications, mailq, disk, budget>>      \* 403
     ELSE /\ messages' = <<[id |-> clock, fromEmail |-> fromEmail, toEmail |-> toEmail,
                            date |-> clock, read |-> FALSE]>> \o messages
          /\ mailq' = sendEmail(mailq, toEmail, <<"New private message", fromEmail>>)
          /\ notifications' = createNotification(notifications, clock, toEmail,
                                                 <<"New message", fromEmail>>)
          /\ budget' = budget - 1
          /\ saveData

\* ------------------------------------------------------------------ forum
\* The authorRole field of a request body: a role, or NULL when it is absent.
AuthorRoles == {"student", "admin", NULL}

\* authRequired: the request carries a token that jwt.verify accepts.  Tokens
\* are issued by /api/auth/register and /api/auth/login to the account's
\* owner, approved or not: the requester of a forum post is an account holder.
HasToken(us, email) == FindUser(us, email) # 0

\* if (req.body.authorRole === 'student') { stu = students.find(...); if (stu && stu.muted) 403 }
ForumMuted(studs, authorEmail, authorRole) ==
  /\ authorRole = "student"
  /\ LET stu == FindStudentByEmail(studs, authorEmail) IN stu # 0 /\ studs[stu].muted

\* res.status(...).json(...) of the two forum routes, with the stores and the
\* forum as the handler found and left them.
ForumResponse(op, req, status) ==
  [op |-> op, req |-> req, status |-> status, pre |-> Stores, post |-> Stores',
   threads |-> forumThreads, threadsAfter |-> forumThreads']

\* forumThreads.find(t => t.id === req.params.id)
FindThread(threads, id) == FindIndex({i \in 1..Len(threads) : threads[i].id = id})

\* POST /api/forum (authRequired), all required fields present, no attachment
PostThread(authorEmail, authorRole) ==
  /\ UNCHANGED assignments
  /\ budget > 0 /\ Inflight < MaxInflight
  /\ HasToken(users, authorEmail)
  /\ budget' = budget - 1
  /\ UNCHANGED <<clock, pendingStudents, students, users, submissions, notifications,
                 files, uploads, grading, registering, mailq, messages, resetRequests,
                 resetting>>
  /\ LET req == [authorEmail |-> authorEmail, authorRole |-> authorRole] IN
     IF ForumMuted(students, authorEmail, authorRole)
     THEN /\ UNCHANGED <<forumThreads, disk>>
          /\ last' = ForumResponse("thread", req, 403)
     ELSE /\ forumThreads' =
               <<[id |-> clock, authorEmail |-> authorEmail,
                  authorRole |-> IF authorRole = NULL THEN "student" ELSE authorRole,
                  date |-> clock, archived |-> FALSE, comments |-> <<>>]>> \o forumThreads
          /\ saveData
          /\ last' = ForumResponse("thread", req, 201)

\* POST /api/forum/:id/comments (authRequired), all required fields present
PostComment(id, authorEmail, authorRole) ==
  /\ UNCHANGED assignments
  /\ budget > 0 /\ Inflight < MaxInflight
  /\ HasToken(users, authorEmail)
  /\ budget' = budget - 1
  /\ UNCHANGED <<clock, pendingStudents, students, users, submissions, notifications,
                 files, uploads, grading, registering, mailq, messages, resetRequests,
                 resetting>>
  /\ LET req == [id |-> id, authorEmail |-> authorEmail, authorRole |-> authorRole]
         thread == FindThread(forumThreads, id) IN
     IF thread = 0
     THEN /\ UNCHANGED <<forumThreads, disk>>
          /\ last' = ForumResponse("comment", req, 404)
     ELSE IF ForumMuted(students, authorEmail, authorRole)
     THEN /\ UNCHANGED <<forumThreads, disk>>
          /\ last' = ForumResponse("comment", req, 403)
     ELSE /\ forumThreads' =
               [forumThreads EXCEPT ![thread].comments =
                  Append(@, [id |-> clock, authorEmail |-> authorEmail,
                             authorRole |-> IF authorRole = NULL THEN "student" ELSE authorRole,
                             date |-> clock])]
          /\ saveData
          /\ last' = ForumResponse("comment", req, 201)

\* The forum posts of the account holders E.
Forum(E) ==
  \/ \E e \in E, role \in AuthorRoles : PostThread(e, role)
  \/ \E id \in 0..MaxClock, e \in E, role \in AuthorRoles : PostComment(id, e, role)

\* The mute and unmute requests of an admin for the student ids S.
Moderation(S) ==
  \/ \E sid \in S : Mute(sid)
  \/ \E sid \in S : Unmute(sid)

\* The registration requests for the emails E with the student ids S, and the
\* approval and rejection requests of an admin.
Registration(E, S) ==
  \/ \E e \in E, sid \in S : RegisterStudent(e, sid)
  \/ \E e \in E, sid \in S : AuthRegisterBegin(e, "student", sid, FALSE)
  \/ \E r \in BagToSet(registering) : AuthRegisterEnd(r)
  \/ \E id \in 0..MaxClock : Approve(id)
  \/ \E id \in 0..MaxClock : Reject(id)

Delivery == \E m \in BagToSet(mailq) : EmailSent(m)
\* transporter.sendMail rejects.
Failure == \E m \in BagToSet(mailq) : EmailFailed(m)

\* Spec: two approved students and two assignments; submit, grade (with and
\* without a valid annotation), mute and unmute requests, MaxReq of them.
Init == Start(ApprovedData, MaxReq)
Next ==
  \/ Tick
  \/ Submit(AssignmentIds, Emails, {PdfBytes(2)}, Rands)
  \/ Grading(AssignmentIds, GradeInputs, {"none", "png"})
  \/ Moderation(StudentIds)
  \/ Delivery
Spec == Init /\ [][Next]_vars

\* SpecDeep: longer histories of one student's submissions to one assignment.
InitDeep == Start(ApprovedData, MaxDeepReq)
NextDeep ==
  \/ Tick
  \/ Submit({"A1"}, {"s@x.edu"}, {PdfBytes(2)}, {"r1"})
  \/ Grading({"A1"}, GradeInputs, {"none", "png"})
  \/ Moderation({"S1"})
  \/ Delivery
SpecDeep == InitDeep /\ [][NextDeep]_vars

\* SpecMerge: the annotation merge, over every kind of uploaded document and
\* annotation part.
InitMerge == Start(ApprovedData, MaxMergeReq)
NextMerge ==
  \/ Tick
  \/ Submit({"A1"}, {"s@x.edu"}, Uploads, Rands)
  \/ Grading({"A1"}, GradeInputs, Annotations)
  \/ Delivery
SpecMerge == InitMerge /\ [][NextMerge]_vars

\* SpecPeers: two students submit to one assignment and are graded.
InitPeers == Start(ApprovedData, MaxPeerReq)
NextPeers ==
  \/ Tick
  \/ Submit({"A1"}, Emails, {PdfBytes(2)}, {"r1"})
  \/ Grading({"A1"}, GradeInputs, {"none", "png"})
  \/ Delivery
SpecPeers == InitPeers /\ [][NextPeers]_vars

\* SpecFeedback: two students submit to one assignment and are graded with
\* an annotation part.
InitFeedback == Start(ApprovedData, MaxFeedbackReq)
NextFeedback ==
  \/ Tick
  \/ Submit({"A1"}, Emails, {PdfBytes(2)}, {"r1"})
  \/ Grading({"A1"}, {[grade |-> "88", comments |-> "Good"]}, {"png"})
  \/ Delivery
SpecFeedback == InitFeedback /\ [][NextFeedback]_vars

\* SpecForum: a student registers an account, is approved or not, muted or
\* not, and posts in the forum.
InitForum == Start(FreshData, MaxForumReq)
NextForum ==
  \/ Registration({"s@x.edu"}, {"S1"})
  \/ Moderation({"S1"})
  \/ Forum({"s@x.edu"})
  \/ Delivery
SpecForum == InitForum /\ [][NextForum]_vars

\* A data file with the accounts of an approved student and of an admin, and
\* the student's password reset request.
AccountsData ==
  [ApprovedData EXCEPT
     !.users = <<[email |-> "s@x.edu", role |-> "student", approved |-> TRUE,
                  muted |-> FALSE, passwordHash |-> <<"bcrypt", "pw0">>],
                 [email |-> "a@x.edu", role |-> "admin", approved |-> TRUE,
                  muted |-> FALSE, passwordHash |-> <<"bcrypt", "pw0">>]>>,
     !.resetRequests = <<[email |-> "s@x.edu", approved |-> FALSE]>>]

\* SpecEvents: the events that notify one recipient: mute, unmute, password
\* reset approval and private message, and the emails they send.
InitEvents == Start(AccountsData, MaxEventReq)
NextEvents ==
  \/ Moderation({"S1"})
  \/ \E e \in {"s@x.edu"} : ApproveReset(e)
  \/ \E from \in {"a@x.edu", "s@x.edu"}, to \in {"s@x.edu", "t@x.edu"} : SendMessage(from, to)
  \/ Delivery
  \/ Failure
SpecEvents == InitEvents /\ [][NextEvents]_vars

\* SpecReset: the password reset workflow of one account.
InitReset == Start([AccountsData EXCEPT !.resetRequests = <<>>], MaxResetReq)
NextReset ==
  \/ Resets({"s@x.edu"})
  \/ Delivery
SpecReset == InitReset /\ [][NextReset]_vars

\* SpecAssignments: an admin creates assignments, whose ids are the instants
\* of their creation, and an approved student submits to those ids.
InitAssignments == Start([ApprovedData EXCEPT !.assignments = <<>>], MaxAssignReq)
NextAssignments ==
  \/ Tick
  \/ CreateAssignment
  \/ Submit({ToString(t) : t \in 0..MaxClock}, {"s@x.edu"}, {PdfBytes(2)}, {"r1"})
  \/ Delivery
SpecAssignments == InitAssignments /\ [][NextAssignments]_vars

\* SpecOpen: submit and grade requests sent with no token, with a student's
\* token and with an admin's.
InitOpen == Start(AccountsData, MaxOpenReq)
NextOpen ==
  \/ Tick
  \/ SubmitBy(Tokens, {"A1"}, {"s@x.edu"}, {PdfBytes(2)}, {"r1"})
  \/ GradingBy(Tokens, {"A1"}, {[grade |-> "88", comments |-> "Good"]}, {"none", "png"})
  \/ Delivery
SpecOpen == InitOpen /\ [][NextOpen]_vars

\* SpecNotify: one student's submit and grade requests, the emails they send
\* (delivered, failed, or never completed) and the markRead requests.
InitNotify == Start(ApprovedData, MaxNotifyReq)
NextNotify ==
  \/ Tick
  \/ Submit({"A1"}, {"s@x.edu"}, {PdfBytes(2)}, {"r1"})
  \/ Grading({"A1"}, GradeInputs, {"none", "png"})
  \/ Delivery
  \/ Failure
  \/ Reading
SpecNotify == InitNotify /\ [][NextNotify]_vars

\* SpecListing: the listing of the submissions of a data file that an earlier
\* run saved: up to MaxListed students' submissions to the two assignments,
\* uploaded (or replaced) at 0..MaxUploadedAt, graded or not.
ListedEmails == <<"s@x.edu", "t@x.edu", "u@x.edu", "v@x.edu">>
StoredSubmission(i, assignmentId, uploadedAt, graded) ==
  [id |-> -i, assignmentId |-> assignmentId, studentEmail |-> ListedEmails[i],
   filePath |-> SubmissionPath(uploadedAt, ListedEmails[i]), uploadedAt |-> uploadedAt,
   graded |-> graded, grade |-> IF graded THEN "88" ELSE NULL,
   comments |-> IF graded THEN "Good" ELSE EMPTY, feedbackPath |-> NoPath]
StoredSubmissions ==
  UNION {[1..n -> AssignmentIds \X (0..MaxUploadedAt) \X BOOLEAN] : n \in 0..MaxListed}
ListingData(f) ==
  [ApprovedData EXCEPT
     !.submissions = [i \in DOMAIN f |-> StoredSubmission(i, f[i][1], f[i][2], f[i][3])]]
InitListing == \E f \in StoredSubmissions : Start(ListingData(f), 0)
NextListing == \E a \in AssignmentIds : List(a)
SpecListing == InitListing /\ [][NextListing]_vars

\* SpecDirectory: the directory from a fresh install, and the gate of submit.
InitDirectory == Start(FreshData, MaxDirReq)
NextDirectory ==
  \/ Tick
  \/ Registration({"s@x.edu"}, StudentIds)
  \/ Moderation(StudentIds)
  \/ Submit({"A1"}, {"s@x.edu"}, {PdfBytes(2)}, {"r1"})
  \/ Delivery
SpecDirectory == InitDirectory /\ [][NextDirectory]_vars

\* ------------------------------------------------------------------ properties
\* The records of subs for the pair (assignmentId, studentEmail).
PairOf(subs, assignmentId, studentEmail) ==
  {i \in 1..Len(subs) : subs[i].assignmentId = assignmentId /\ subs[i].studentEmail = studentEmail}

\* The records of subs a grade request names, and the one it resolves to.
NamedBy(subs, req) ==
  {i \in 1..Len(subs) : subs[i].id = req.submissionId /\ subs[i].assignmentId = req.assignmentId}
ResolvedBy(subs, req) ==
  CHOOSE i \in NamedBy(subs, req) : \A j \in NamedBy(subs, req) : i <= j

\* The student's directory record (the one a lookup by email returns) exists,
\* which is to say it is approved, and is not muted.
DirectoryAllows(studs, studentEmail) ==
  \E i \in 1..Len(studs) :
    /\ studs[i].email = studentEmail
    /\ ~studs[i].muted
    /\ \A j \in 1..(i - 1) : studs[j].email # studentEmail

\* The last request handled was a submit / a grade request.
SubmitHandled == last.op = "submit"
GradeHandled == last.op = "grade"

\* The stored uploads that no record and no waiting request refers to.
Orphans(st, ups) ==
  {p \in DOMAIN st.files :
     /\ p[1] = "submissions"
     /\ \A i \in 1..Len(st.submissions) : st.submissions[i].filePath # p
     /\ \A u \in BagToSet(ups) : u.path # p}

\* C1: in every reachable state the submission store holds at most one record
\* for each (assignmentId, studentEmail) pair, whatever the interleaving of
\* the requests.
C1_Uniqueness ==
  \A i, j \in 1..Len(submissions) :
    (submissions[i].assignmentId = submissions[j].assignmentId
       /\ submissions[i].studentEmail = submissions[j].studentEmail) => i = j

\* Two submit requests for one pair overlapped: the upload of the one handled
\* last was stored before the other created the pair's record, and it did
\* not create a second one.
C1_ConcurrentSubmits ==
  /\ SubmitHandled
  /\ last.status = 200
  /\ \E i \in PairOf(last.pre.submissions, last.req.assignmentId, last.req.studentEmail) :
       /\ last.req.path[2] < last.pre.submissions[i].id
       /\ last.submissionId = last.pre.submissions[i].id
  /\ Len(last.post.submissions) = 1

\* C2: a submit of an allowed student for a pair whose record is not graded
\* leaves the number of records unchanged, returns the existing record's id,
\* and replaces the record's filePath and uploadedAt by those of the new upload.
C2_ReplaceBeforeGrading ==
  SubmitHandled =>
    \A i \in PairOf(last.pre.submissions, last.req.assignmentId, last.req.studentEmail) :
      (DirectoryAllows(last.pre.students, last.req.studentEmail)
         /\ ~last.pre.submissions[i].graded) =>
        /\ last.status = 200
        /\ Len(last.post.submissions) = Len(last.pre.submissions)
        /\ last.submissionId = last.pre.submissions[i].id
        /\ last.post.submissions[i].filePath = last.req.path
        /\ last.post.submissions[i].uploadedAt = last.pre.clock
        /\ last.post.submissions[i].id = last.pre.submissions[i].id

\* A replacement took place: the record now names another document, uploaded later.
C2_Replaced ==
  /\ SubmitHandled
  /\ \E i \in PairOf(last.pre.submissions, last.req.assignmentId, last.req.studentEmail) :
       /\ ~last.pre.submissions[i].graded
       /\ last.post.submissions[i].filePath # last.pre.submissions[i].filePath
       /\ last.post.submissions[i].uploadedAt > last.pre.submissions[i].uploadedAt

\* C3 as stated: a submit for a pair whose record is graded always fails with
\* ALREADY_GRADED, whatever the student's approval and mute state, and leaves
\* the record unchanged.
C3_AlwaysAlreadyGraded ==
  SubmitHandled =>
    \A i \in PairOf(last.pre.submissions, last.req.assignmentId, last.req.studentEmail) :
      last.pre.submissions[i].graded =>
        /\ last.error = "ALREADY_GRADED"
        /\ last.post.submissions[i] = last.pre.submissions[i]

\* C3 amended: a submit for a pair whose record is graded always fails and
\* leaves the record unchanged; the error is ALREADY_GRADED when the directory
\* allows the student, and the gate's NOT_APPROVED or MUTED otherwise.
C3_GradedRejected ==
  SubmitHandled =>
    \A i \in PairOf(last.pre.submissions, last.req.assignmentId, last.req.studentEmail) :
      last.pre.submissions[i].graded =>
        /\ last.status # 200
        /\ last.post.submissions = last.pre.submissions
        /\ IF DirectoryAllows(last.pre.students, last.req.studentEmail)
           THEN last.error = "ALREADY_GRADED"
           ELSE last.error \in {"NOT_APPROVED", "MUTED"}

\* An allowed student's upload for a graded pair was rejected.
C3_RejectedAfterGrading ==
  /\ SubmitHandled
  /\ last.error = "ALREADY_GRADED"
  /\ DirectoryAllows(last.pre.students, last.req.studentEmail)
  /\ \E i \in PairOf(last.pre.submissions, last.req.assignmentId, last.req.studentEmail) :
       last.pre.submissions[i].graded

\* C4: once a record is graded, every step leaves it graded, with the same
\* filePath and uploadedAt.
C4_GradedFrozen ==
  [][\A i \in 1..Len(submissions) :
       submissions[i].graded =>
         /\ i <= Len(submissions')
         /\ submissions'[i].graded
         /\ submissions'[i].filePath = submissions[i].filePath
         /\ submissions'[i].uploadedAt = submissions[i].uploadedAt]_vars

\* A regrade changed the grade of a graded record and left its document alone.
C4_Regraded ==
  /\ GradeHandled
  /\ last.status = 200
  /\ LET i == ResolvedBy(last.pre.submissions, last.req) IN
     /\ last.pre.submissions[i].graded
     /\ last.pre.submissions[i].grade # last.post.submissions[i].grade
     /\ last.post.submissions[i].filePath = last.pre.submissions[i].filePath

\* C5: a submit passes the gate exactly when, as the handler runs, the
\* student's directory record exists and is not muted; the verdict is a
\* function of the directory at that instant alone.
C5_GateDecision ==
  SubmitHandled =>
    /\ last.error \in {"NOT_APPROVED", "MUTED"}
         <=> ~DirectoryAllows(last.pre.students, last.req.studentEmail)
    /\ last.error = "NOT_APPROVED"
         <=> (\A i \in 1..Len(last.pre.students) :
                last.pre.students[i].email # last.req.studentEmail)

\* A submit was accepted although an earlier upload had been turned away:
\* that upload's file is still stored and no record refers to it.
C5_AcceptedAfterDenial ==
  /\ SubmitHandled
  /\ last.status = 200
  /\ Orphans(last.post, uploads) # {}

\* C6 as stated: while a directory record of the student is muted, every
\* submit of that student is rejected and creates or replaces nothing.
C6_MutedRejected ==
  SubmitHandled =>
    ((\E i \in 1..Len(last.pre.students) :
        last.pre.students[i].email = last.req.studentEmail /\ last.pre.students[i].muted)
       => (last.status # 200 /\ last.post.submissions = last.pre.submissions))

\* C7: a grade request that names an existing (assignmentId, submissionId)
\* succeeds, graded or not before, and leaves the record the lookup resolves
\* it to graded, with the request's grade and comments.
C7_GradeSucceeds ==
  GradeHandled =>
    (NamedBy(last.pre.submissions, last.req) # {} =>
       LET i == ResolvedBy(last.pre.submissions, last.req) IN
       /\ last.status = 200
       /\ last.post.submissions[i].graded
       /\ last.post.submissions[i].grade = last.req.grade
       /\ last.post.submissions[i].comments = last.req.comments)

\* A first grading whose handler was suspended in the merge came through.
C7_FirstGradeMerged ==
  /\ GradeHandled
  /\ last.status = 200
  /\ last.merged # NoPath
  /\ ~last.pre.submissions[ResolvedBy(last.pre.submissions, last.req)].graded

\* C8: a grade request that names no record fails with NOT_FOUND and leaves
\* the submissions, the notifications (created or on their way) and the
\* stored documents unchanged.
C8_GradeNotFound ==
  GradeHandled =>
    (NamedBy(last.pre.submissions, last.req) = {} =>
       /\ last.status = 404
       /\ last.error = "NOT_FOUND"
       /\ last.post.submissions = last.pre.submissions
       /\ last.post.notifications = last.pre.notifications
       /\ last.post.mailq = last.pre.mailq
       /\ last.post.files = last.pre.files)

\* A grade request named a stored submission id under another assignment.
C8_WrongAssignment ==
  /\ GradeHandled
  /\ last.status = 404
  /\ \E i \in 1..Len(last.pre.submissions) :
       last.pre.submissions[i].id = last.req.submissionId

\* The merge of the last grade request failed: the annotation or the stored
\* document could not be decoded, or the document could not be read or has
\* no page.
MergeFailed ==
  /\ last.req.annotation # "none"
  /\ \/ last.req.annotation = "bad"
     \/ last.from = NoPath
     \/ ~last.pdfBytes.valid
     \/ Len(last.pdfBytes.pages) = 0

\* C9: a grade request with an annotation whose merge fails still succeeds;
\* the record ends graded, with the request's grade and comments, and with
\* the feedbackPath it had.
C9_MergeFailureStillGrades ==
  (GradeHandled /\ last.status = 200 /\ MergeFailed) =>
    LET i == ResolvedBy(last.pre.submissions, last.req) IN
    /\ last.post.submissions[i].graded
    /\ last.post.submissions[i].grade = last.req.grade
    /\ last.post.submissions[i].comments = last.req.comments
    /\ last.post.submissions[i].feedbackPath = last.pre.submissions[i].feedbackPath
    /\ last.post.files = last.pre.files

\* A regrade with an undecodable annotation kept the earlier feedback document.
C9_RegradeKeptFeedback ==
  /\ GradeHandled
  /\ last.status = 200
  /\ last.req.annotation = "bad"
  /\ last.post.submissions[ResolvedBy(last.pre.submissions, last.req)].feedbackPath # NoPath

\* The feedback document of record i is stored and is `source` with page 1
\* altered and nothing else.
FeedbackOf(i, source) ==
  LET fb == last.post.submissions[i].feedbackPath IN
  /\ fb # NoPath
  /\ fb \in DOMAIN last.post.files
  /\ LET doc == last.post.files[fb] IN
     /\ doc.valid
     /\ Len(doc.pages) = Len(source.pages)
     /\ Len(doc.pages) >= 1
     /\ doc.pages[1] # source.pages[1]
     /\ \A k \in 2..Len(doc.pages) : doc.pages[k] = source.pages[k]
  /\ \A p \in DOMAIN last.pre.files :
       p # fb => (p \in DOMAIN last.post.files /\ last.post.files[p] = last.pre.files[p])

\* C10 as stated: a grade request with a valid annotation leaves the record
\* with a feedbackPath that names a stored document with the pages of the
\* record's document, page 1 altered, and leaves the stored documents alone.
C10_ValidRasterMerges ==
  (GradeHandled /\ last.status = 200 /\ last.req.annotation = "png") =>
    LET i == ResolvedBy(last.pre.submissions, last.req) IN
    /\ last.pre.submissions[i].filePath \in DOMAIN last.pre.files
    /\ FeedbackOf(i, last.pre.files[last.pre.submissions[i].filePath])

\* C10 amended: a grade request with a valid annotation, for a record whose
\* stored document the handler could read and decode and which has a page,
\* leaves the record with a feedbackPath that names a stored document with
\* the pages of the document read, page 1 altered, and leaves the other
\* stored documents alone.
C10_DecodableSourceMerges ==
  (GradeHandled /\ last.status = 200 /\ last.req.annotation = "png"
     /\ last.from # NoPath /\ last.pdfBytes.valid /\ Len(last.pdfBytes.pages) >= 1) =>
    /\ FeedbackOf(ResolvedBy(last.pre.submissions, last.req), last.pdfBytes)
    /\ last.merged = last.post.submissions[ResolvedBy(last.pre.submissions, last.req)].feedbackPath

\* A two-page document was merged with an annotation.
C10_TwoPagesMerged ==
  /\ GradeHandled
  /\ last.merged # NoPath
  /\ Len(last.post.files[last.merged].pages) = 2
  /\ last.post.files[last.merged].pages[1] = 1

\* The last request handled was a successful submit or grade request.
EventHandled == last.op \in {"submit", "grade"} /\ last.status = 200

\* The student the event of the last request concerns.
EventStudent ==
  IF last.op = "submit" THEN last.req.studentEmail
  ELSE last.post.submissions[ResolvedBy(last.pre.submissions, last.req)].studentEmail

\* C11 as stated: a successful submit or grade creates exactly one
\* Notification, for the submission's studentEmail, with read = false.  Stated
\* for an event that found no send pending, once no send is pending any more:
\* the store then holds one notification more than the handler found.
C11_ExactlyOneNotification ==
  (EventHandled /\ last.pre.mailq = EmptyBag /\ mailq = EmptyBag) =>
    /\ Len(notifications) = Len(last.pre.notifications) + 1
    /\ notifications[Len(notifications)].email = EventStudent
    /\ ~notifications[Len(notifications)].read

\* C12 as stated: the completion of an event's send, failed or not, leaves
\* the event's Notification in the store.
C12_FailureKeepsNotification ==
  [][BagCardinality(mailq') < BagCardinality(mailq) =>
       /\ Len(notifications') = Len(notifications) + 1
       /\ \A i \in 1..Len(notifications) : notifications'[i] = notifications[i]]_vars

\* C13: a successful submit or grade handler ends, with its mutation made and
\* its response given, while its send is still pending; and the end of a
\* send, delivered or failed, changes neither the submissions nor a response.
C13_TransitionIndependentOfEmail ==
  [][/\ (last' # last /\ last'.op \in {"submit", "grade"} /\ last'.status = 200) =>
          /\ BagCardinality(mailq') = BagCardinality(mailq) + 1
          /\ submissions' = last'.post.submissions
          /\ IF last'.op = "submit"
             THEN \E i \in PairOf(submissions', last'.req.assignmentId, last'.req.studentEmail) :
                    submissions'[i].filePath = last'.req.path
             ELSE submissions'[ResolvedBy(submissions, last'.req)].grade = last'.req.grade
     /\ BagCardinality(mailq') < BagCardinality(mailq) =>
          (submissions' = submissions /\ last' = last /\ disk' = disk)]_vars

\* A submit was answered and its email has not completed while time went on.
C13_AnsweredWhileSending ==
  /\ last.op = "submit"
  /\ last.status = 200
  /\ last.pre.mailq = EmptyBag
  /\ mailq # EmptyBag
  /\ clock > last.pre.clock

\* The notifications of notes with the id a markRead request names, and the
\* one the request resolves to.
NotesNamed(notes, id) == {i \in 1..Len(notes) : notes[i].id = id}
NoteResolved(notes, id) ==
  CHOOSE i \in NotesNamed(notes, id) : \A j \in NotesNamed(notes, id) : i <= j

\* C14: markRead of an existing notification id reports success and leaves
\* the notification read, whether it was read before or not; on a
\* notification already read it changes nothing.
C14_MarkReadIdempotent ==
  (last.op = "markRead" /\ NotesNamed(last.pre.notifications, last.req.id) # {}) =>
    LET i == NoteResolved(last.pre.notifications, last.req.id) IN
    /\ last.status = 200
    /\ last.post.notifications[i].read
    /\ last.post.notifications = [last.pre.notifications EXCEPT ![i].read = TRUE]
    /\ last.pre.notifications[i].read => last.post = last.pre

\* A second markRead of the same notification was answered.
C14_MarkedTwice ==
  /\ last.op = "markRead"
  /\ last.status = 200
  /\ last.pre.notifications[NoteResolved(last.pre.notifications, last.req.id)].read

C16_DistinctDenials ==
  SubmitHandled =>
    LET e == last.req.studentEmail
        approved == \E i \in 1..Len(last.pre.students) : last.pre.students[i].email = e
        pending == \E i \in 1..Len(last.pre.pendingStudents) :
                     last.pre.pendingStudents[i].email = e
    IN /\ (~approved /\ ~pending) => last.error = "NOT_FOUND"
       /\ (~approved /\ pending) => last.error = "NOT_APPROVED"
       /\ (approved /\ ~DirectoryAllows(last.pre.students, e)) => last.error = "MUTED"

\* C17: in every state, whatever grade requests are in flight, a record's
\* grade and comments are those of one grade request, and the record is then
\* graded, or they are both the initial values, and it is not.
C17_GradeAndCommentsTogether ==
  \A i \in 1..Len(submissions) :
    \/ /\ ~submissions[i].graded
       /\ submissions[i].grade = NULL
       /\ submissions[i].comments = EMPTY
    \/ /\ submissions[i].graded
       /\ \E gi \in GradeInputs :
            submissions[i].grade = gi.grade /\ submissions[i].comments = gi.comments

\* One of two overlapping grade requests for a submission, with different
\* inputs, has committed and the other is still suspended in its merge.
C17_OverlappingGrades ==
  /\ GradeHandled
  /\ last.status = 200
  /\ last.merged # NoPath
  /\ \E g \in BagToSet(grading) :
       /\ g.req.submissionId = last.req.submissionId
       /\ g.req.assignmentId = last.req.assignmentId
       /\ g.req.grade # last.req.grade
       /\ g.from = last.from

\* C18: the listing of an assignment shows exactly the records with that
\* assignmentId, the ungraded ones by uploadedAt ascending and the graded
\* ones by uploadedAt descending.
C18_ListingOrdered ==
  last.op = "list" =>
    LET u == last.shown.ungraded
        g == last.shown.graded
    IN /\ {u[i] : i \in 1..Len(u)} \cup {g[i] : i \in 1..Len(g)}
            = {submissions[i] : i \in {j \in 1..Len(submissions) :
                                        submissions[j].assignmentId = last.req.assignmentId}}
       /\ Len(u) + Len(g)
            = Cardinality({j \in 1..Len(submissions) :
                             submissions[j].assignmentId = last.req.assignmentId})
       /\ \A i \in 1..Len(u) : ~u[i].graded
       /\ \A i \in 1..Len(g) : g[i].graded
       /\ \A i, j \in 1..Len(u) : i < j => u[i].uploadedAt <= u[j].uploadedAt
       /\ \A i, j \in 1..Len(g) : i < j => g[i].uploadedAt >= g[j].uploadedAt

\* The server sent an assignment's submissions in another order than the one
\* shown: the ungraded ones newest first, and graded ones oldest first.
C18_Reordered ==
  /\ last.op = "list"
  /\ Len(last.fetched) = 3
  /\ \E i, j \in 1..Len(last.fetched) :
       /\ i < j
       /\ ~last.fetched[i].graded /\ ~last.fetched[j].graded
       /\ last.fetched[i].uploadedAt > last.fetched[j].uploadedAt
  /\ Len(last.shown.ungraded) = 2

\* C19 as stated: the Notification that a grade request gives rise to carries
\* an assignmentId, the one of the graded submission, which the client's
\* notification view follows to the assignment.
C19_GradeNotificationTarget ==
  \A i \in 1..Len(notifications) :
    notifications[i].message[1] = "Assignment graded" =>
      /\ NotificationTarget(notifications[i]) # NULL
      /\ NotificationTarget(notifications[i]) = notifications[i].message[2]

\* C20 as stated: when a successful submit has answered and saved the state,
\* the store and the saved file hold the submission-received Notification of
\* that submit, which the handler did not find there.
C20_NotifiedBeforeCompletion ==
  (SubmitHandled /\ last.status = 200) =>
    /\ \E i \in (Len(last.pre.notifications) + 1)..Len(last.post.notifications) :
         /\ last.post.notifications[i].email = last.req.studentEmail
         /\ last.post.notifications[i].message[1] = "Assignment submission received"
    /\ Len(disk.notifications) > Len(last.pre.notifications)

\* C21 as stated: no two Submission records have the same feedbackPath, and
\* each record's feedback document is the one merged from a document of that
\* record's student.
C21_FreshFeedbackKey ==
  \A i, j \in 1..Len(submissions) :
    (i # j /\ submissions[i].feedbackPath # NoPath) =>
      submissions[i].feedbackPath # submissions[j].feedbackPath

\* C22: no step removes a Notification or changes its recipient, message or
\* creation date; a step changes at most read, and only from false to true.
C22_NotificationFrozen ==
  [][/\ Len(notifications') >= Len(notifications)
     /\ \A i \in 1..Len(notifications) :
          /\ notifications'[i].id = notifications[i].id
          /\ notifications'[i].email = notifications[i].email
          /\ notifications'[i].message = notifications[i].message
          /\ notifications'[i].date = notifications[i].date
          /\ notifications[i].read => notifications'[i].read
          /\ notifications'[i] \in {notifications[i], [notifications[i] EXCEPT !.read = TRUE]}]_vars

\* A notification was marked read, and later a submit's notification was
\* created behind it.
C22_ReadThenCreated ==
  /\ last.op = "markRead" /\ last.status = 200
  /\ Len(notifications) > Len(last.post.notifications)
  /\ \E i \in 1..Len(last.pre.notifications) :
       ~last.pre.notifications[i].read /\ notifications[i].read

\* The forum post handled last came from a student whose registration is
\* pending, or from a muted student.
PostedByExcluded ==
  /\ last.op \in {"thread", "comment"}
  /\ last.status # 404
  /\ LET stu == FindStudentByEmail(last.pre.students, last.req.authorEmail) IN
     \/ stu # 0 /\ last.pre.students[stu].muted
     \/ /\ stu = 0
        /\ \E i \in 1..Len(last.pre.pendingStudents) :
             last.pre.pendingStudents[i].email = last.req.authorEmail

\* C23 as stated: a forum thread or comment posted by a pending or muted
\* student is rejected and leaves the forum as it was, whatever authorRole the
\* body declares.
C23_ExcludedCannotPost ==
  PostedByExcluded => (last.status = 403 /\ last.threadsAfter = last.threads)

\* C24 as stated: whenever no request and no callback is in flight, data.json
\* holds every store as it is in memory.
C24_QuiescentSaved ==
  Inflight = 0 =>
    disk = DataFile(pendingStudents, students, users, submissions, notifications,
                    assignments, forumThreads, messages, resetRequests)

\* C25: an accepted replacement leaves the previous document's path out of the
\* upload store (whether or not the file was still there to unlink) and
\* leaves the record's id, assignmentId, studentEmail, graded, grade, comments
\* and feedbackPath as they were.
C25_ReplaceReleases ==
  (SubmitHandled /\ last.status = 200) =>
    \A i \in PairOf(last.pre.submissions, last.req.assignmentId, last.req.studentEmail) :
      /\ last.pre.submissions[i].filePath \notin DOMAIN last.post.files
      /\ last.post.submissions[i].id = last.pre.submissions[i].id
      /\ last.post.submissions[i].assignmentId = last.pre.submissions[i].assignmentId
      /\ last.post.submissions[i].studentEmail = last.pre.submissions[i].studentEmail
      /\ last.post.submissions[i].graded = last.pre.submissions[i].graded
      /\ last.post.submissions[i].grade = last.pre.submissions[i].grade
      /\ last.post.submissions[i].comments = last.pre.submissions[i].comments
      /\ last.post.submissions[i].feedbackPath = last.pre.submissions[i].feedbackPath

\* A replacement unlinked the previous document and stored the new one under
\* another path.
C25_OldDocumentGone ==
  /\ SubmitHandled /\ last.status = 200
  /\ \E i \in PairOf(last.pre.submissions, last.req.assignmentId, last.req.studentEmail) :
       /\ last.pre.submissions[i].filePath \in DOMAIN last.pre.files
       /\ last.pre.submissions[i].filePath # last.req.path
       /\ last.req.path \in DOMAIN last.post.files

\* C26: a successful grade request without an annotation part leaves the
\* record's feedbackPath, and the document stored there, as they were, and
\* reports that feedbackPath.
C26_NoAnnotationKeepsFeedback ==
  (GradeHandled /\ last.status = 200 /\ last.req.annotation = "none") =>
    LET i == ResolvedBy(last.pre.submissions, last.req)
        ref == last.pre.submissions[i].feedbackPath IN
    /\ last.post.submissions[i].feedbackPath = ref
    /\ last.feedbackPath = ref
    /\ last.post.files = last.pre.files

\* A record graded with an annotation was regraded without one.
C26_RegradedWithoutAnnotation ==
  /\ GradeHandled /\ last.status = 200 /\ last.req.annotation = "none"
  /\ LET i == ResolvedBy(last.pre.submissions, last.req) IN
     /\ last.pre.submissions[i].graded
     /\ last.pre.submissions[i].feedbackPath # NoPath
     /\ last.pre.submissions[i].feedbackPath \in DOMAIN last.post.files

\* C27 as stated: each mute, unmute, password reset approval and private
\* message creates exactly one Notification.  Every request SpecEvents counts
\* is one such event: once no email is pending, the store holds one
\* notification more per event than the data file had.
C27_OneNotificationPerEvent ==
  mailq = EmptyBag =>
    Len(notifications) = Len(AccountsData.notifications) + (MaxEventReq - budget)

\* C28 as stated: a resetPassword request succeeds only while an approved
\* reset request for its email exists, which it then removes: its last stretch,
\* which changes the password, finds that request in the store and leaves none.
C28_OneResetPerApproval ==
  (last.op = "resetPassword" /\ last.status = 200) =>
    /\ FindApprovedReset(last.resetRequests, last.req.email) # 0
    /\ FindReset(last.resetRequestsAfter, last.req.email) = 0

\* C29 as stated: the feedback document of a graded record was merged from
\* the document the record references.
C29_FeedbackOfCurrentDocument ==
  \A i \in 1..Len(submissions) :
    (submissions[i].graded /\ submissions[i].feedbackPath \in DOMAIN files) =>
      files[submissions[i].feedbackPath].from = submissions[i].filePath

\* C30 as stated: no two Submission records have the same id, so that the
\* records a grade request names by (assignmentId, submissionId) are one
\* record at most.
C30_UniqueSubmissionIds ==
  \A i, j \in 1..Len(submissions) :
    i # j => submissions[i].id # submissions[j].id

\* C31 as stated: no two Notification records have the same id, so that the
\* lookup of markRead returns, for every notification's id, that notification.
C31_UniqueNotificationIds ==
  \A i \in 1..Len(notifications) :
    FindNotification(notifications, notifications[i].id) = i

\* C32: in every reachable state a record that is not graded has grade null,
\* empty comments and no feedbackPath.
C32_UngradedIsBlank ==
  \A i \in 1..Len(submissions) :
    ~submissions[i].graded =>
      /\ submissions[i].grade = NULL
      /\ submissions[i].comments = EMPTY
      /\ submissions[i].feedbackPath = NoPath

\* A record was replaced and is still ungraded while a grade request for it,
\* with an annotation, is suspended in its merge.
C32_UngradedWhileGrading ==
  /\ grading # EmptyBag
  /\ \E i \in 1..Len(submissions) :
       /\ ~submissions[i].graded
       /\ submissions[i].uploadedAt > submissions[i].id

\* C33 as stated: every Submission record's assignmentId is the id of a
\* record of the assignment store.
C33_AssignmentExists ==
  \A i \in 1..Len(submissions) :
    \E a \in 1..Len(assignments) : assignments[a].id = submissions[i].assignmentId

\* C34 as stated: after a rejected submit (gate denial or ALREADY_GRADED) the
\* document uploaded with the request is not in the upload store, unless a
\* record references that path.
C34_RejectedUploadRemoved ==
  (SubmitHandled /\ last.status # 200) =>
    (last.req.path \in DOMAIN last.post.files =>
       \E i \in 1..Len(last.post.submissions) :
         last.post.submissions[i].filePath = last.req.path)

\* C35 as stated: in every reachable state the filePath of every Submission
\* record names a stored document.
C35_DocumentStored ==
  \A i \in 1..Len(submissions) : submissions[i].filePath \in DOMAIN files

\* C36 as stated: a grade request that changes a record's graded, grade,
\* comments or feedbackPath carries the token of an admin.
C36_GradedByAdminOnly ==
  (GradeHandled /\ last.post.submissions # last.pre.submissions) =>
    adminRequired(last.req.token)

\* C37 as stated: a submit that creates or replaces the record of student
\* email E carries the token of the user with email E.
C37_SubmittedByOwnerOnly ==
  (SubmitHandled /\ last.post.submissions # last.pre.submissions) =>
    /\ authRequired(last.req.token)
    /\ last.req.token.email = last.req.studentEmail

\* C38 as stated: in every reachable state the user store holds at most one
\* record per email.
C38_OneUserPerEmail ==
  \A i, j \in 1..Len(users) : i # j => users[i].email # users[j].email

====
